---- MODULE Spec2Model ----
(***************************************************************************)
(* Boolean and BM25-ranked retrieval over an inverted index:               *)
(* irspimi/expression_eval.py (lexer, Parser, Evaluator, EvaluationResult) *)
(* and irspimi/rank_bm25_eval.py (RankedSearchBM25).                       *)
(*                                                                         *)
(* Python values are modelled as follows.                                  *)
(*   - "x or None": a record [none, val]; None is [none |-> TRUE].         *)
(*   - a dict: a sequence of [key, value] records in insertion order.      *)
(*   - a Posting: [docid, positions].                                      *)
(*   - a raised exception: the name of its class in `outcome`.             *)
(*   - a float BM25 weight: a fixed-point integer (see _compute_bm25_term).*)
(***************************************************************************)
EXTENDS Integers, Sequences, FiniteSets, TLC

VARIABLES
    index,        \* InvertedIndex: term -> postings list, or None (term not indexed)
    doclength,    \* InvertedIndex.get_doclength: docid -> length of the document
    tokens,       \* Parser._tokens: the lexed query with the EOF token appended
    current,      \* Parser._current_token, as its place in tokens
    tree,         \* Evaluator.evaluate: the local `tree` of the last call
    eval_result,  \* Evaluator.eval_result / the result RankedSearchBM25.evaluate returns
    accumulators, \* RankedSearchBM25._search_scored: the dict it returns
    query,        \* RankedSearchBM25.query: the tokenized free-text query
    outcome       \* how the last call ended: "constructed", "returned" or an exception class

vars == <<index, doclength, tokens, current, tree, eval_result, accumulators, query, outcome>>

----------------------------------------------------------------------------
(* Bounds of the model *)

\* Documents of the collection are 1..NDocs.
NDocs == 8
\* Longest boolean query, in tokens, of the evaluator's model (Spec).
MaxLen == 4
\* Longest boolean query, in tokens, of the parser's model (SpecParse).
MaxParseLen == 5
\* Longest free-text query, in tokens, of the ranked search (SpecRank).
MaxQuery == 3
\* Most tokens a document has beyond the positions the index records.
MaxPad == 2

----------------------------------------------------------------------------
(* Python values *)

None == [none |-> TRUE, val |-> <<>>]
Some(v) == [none |-> FALSE, val |-> v]

Range(s) == {s[i] : i \in 1..Len(s)}

\* `key in d`
DictHas(d, k) == \E i \in 1..Len(d) : d[i].key = k
\* `d[key]`
DictGet(d, k) == d[CHOOSE i \in 1..Len(d) : d[i].key = k].value
\* `d[key] = value`: a new key is appended, an old key keeps its place
DictSet(d, k, v) ==
    IF DictHas(d, k)
    THEN [i \in 1..Len(d) |-> IF d[i].key = k THEN [key |-> k, value |-> v] ELSE d[i]]
    ELSE Append(d, [key |-> k, value |-> v])
DictKeys(d) == [i \in 1..Len(d) |-> d[i].key]

Posting(d, ps) == [docid |-> d, positions |-> ps]
DocIds(postings) == {postings[i].docid : i \in 1..Len(postings)}

----------------------------------------------------------------------------
(* The index (inverted_index.InvertedIndex, an external collaborator) *)

Docs == 1..NDocs
Terms == {"a", "b", "c"}

\* get_universe(): the ascending list of all docids
get_universe == [i \in 1..NDocs |-> i]
\* get_doc_count()
get_doc_count == NDocs
\* get_postings(term): the term's postings, or None for a term that is not indexed
get_postings(term) == IF term \in DOMAIN index THEN index[term] ELSE None

\* The ascending list of the members of a set of docids
RECURSIVE SortedSeq(_)
SortedSeq(S) ==
    IF S = {} THEN <<>>
    ELSE LET m == CHOOSE x \in S : \A y \in S : x <= y
         IN <<m>> \o SortedSeq(S \ {m})

----------------------------------------------------------------------------
(* expression_eval.py: TokenType, Token, lexer *)

OR_value == "OR"
AND_value == "AND"
NOT_value == "NOT"
LPAREN_value == "("
RPAREN_value == ")"
EOF_value == "##EOF##"

Token(value, type) == [value |-> value, type |-> type]

\* lexer's loop body: the token for one string
LexOne(t) ==
    IF t = OR_value THEN Token(t, "OR")
    ELSE IF t = AND_value THEN Token(t, "AND")
    ELSE IF t = NOT_value THEN Token(t, "NOT")
    ELSE IF t = LPAREN_value THEN Token(t, "LPAREN")
    ELSE IF t = RPAREN_value THEN Token(t, "RPAREN")
    ELSE IF t = EOF_value THEN Token(t, "EOF")
    ELSE Token(t, "TERM")

lexer(toks) == [i \in 1..Len(toks) |-> LexOne(toks[i])]

----------------------------------------------------------------------------
(* expression_eval.py: ParseTree, Parser *)

BinOp(left_child, op, right_child) ==
    [kind |-> "BinOp", left_child |-> left_child, op |-> op, right_child |-> right_child]
Term(term) == [kind |-> "Term", term |-> term]
UnaryOp(op, child) == [kind |-> "UnaryOp", op |-> op, child |-> child]
NoNode == [kind |-> "NoNode"]

NoErr == "none"
\* What a parsing method leaves: the node it returns, the place of the current
\* token, and the exception it raised, if any.
PR(node, pos, err) == [node |-> node, pos |-> pos, err |-> err]

\* Parser.__init__: the token list of a tokenized expression
ParserInit(words) == lexer(Append(words, EOF_value))

\* Parser._ingest: the new place of the current token, or the exception
_ingest(toks, pos, type) ==
    IF toks[pos].type = type
    THEN [pos |-> pos + 1, err |-> NoErr]
    ELSE [pos |-> pos, err |-> "ExpressionParserException"]

RECURSIVE _expression(_, _), ExpressionLoop(_, _, _)
RECURSIVE _conjunction(_, _), ConjunctionLoop(_, _, _)
RECURSIVE _term(_, _)

\* Parser._term
_term(toks, pos) ==
    LET tok == toks[pos] IN
    IF tok.type = "NOT" THEN
        LET i == _ingest(toks, pos, "NOT")
            r == _term(toks, i.pos)
        IN IF r.err # NoErr THEN r ELSE PR(UnaryOp(tok, r.node), r.pos, NoErr)
    ELSE IF tok.type = "TERM" THEN
        LET i == _ingest(toks, pos, "TERM")
        IN PR(Term(tok), i.pos, NoErr)
    ELSE IF tok.type = "LPAREN" THEN
        LET i == _ingest(toks, pos, "LPAREN")
            r == _expression(toks, i.pos)
            j == _ingest(toks, r.pos, "RPAREN")
        IN IF r.err # NoErr THEN r
           ELSE IF j.err # NoErr THEN PR(NoNode, j.pos, j.err)
           ELSE PR(r.node, j.pos, NoErr)
    \* no branch binds `node`: `return node` raises UnboundLocalError
    ELSE PR(NoNode, pos, "UnboundLocalError")

\* Parser._conjunction: the while loop
ConjunctionLoop(toks, node, pos) ==
    IF toks[pos].type = "AND" THEN
        LET op_tok == toks[pos]
            i == _ingest(toks, pos, "AND")
            r == _term(toks, i.pos)
        IN IF r.err # NoErr THEN r
           ELSE ConjunctionLoop(toks, BinOp(node, op_tok, r.node), r.pos)
    ELSE PR(node, pos, NoErr)

\* Parser._conjunction
_conjunction(toks, pos) ==
    LET r == _term(toks, pos)
    IN IF r.err # NoErr THEN r ELSE ConjunctionLoop(toks, r.node, r.pos)

\* A slip of Parser._expression: the right operand of OR parsed by _term, so
\* that OR binds as tightly as AND
ExpressionLoop_term_operand(toks, node, pos) ==
    IF toks[pos].type = "OR" THEN
        LET op_tok == toks[pos]
            i == _ingest(toks, pos, "OR")
            r == _term(toks, i.pos)
        IN IF r.err # NoErr THEN r
           ELSE ExpressionLoop(toks, BinOp(node, op_tok, r.node), r.pos)
    ELSE PR(node, pos, NoErr)

\* Parser._expression: the while loop
ExpressionLoop(toks, node, pos) ==
    IF toks[pos].type = "OR" THEN
        LET op_tok == toks[pos]
            i == _ingest(toks, pos, "OR")
            r == _conjunction(toks, i.pos)
        IN IF r.err # NoErr THEN r
           ELSE ExpressionLoop(toks, BinOp(node, op_tok, r.node), r.pos)
    ELSE PR(node, pos, NoErr)

\* Parser._expression
_expression(toks, pos) ==
    LET r == _conjunction(toks, pos)
    IN IF r.err # NoErr THEN r ELSE ExpressionLoop(toks, r.node, r.pos)

\* Parser.parse
parse(toks, pos) == _expression(toks, pos)

----------------------------------------------------------------------------
(* search.intersect / search.union / search.neg: the postings algebra.      *)
(* The module `search` is not among the sources; these follow section 4.2   *)
(* of the specification (merges over lists ascending by docid).             *)

RECURSIVE IntersectMerge(_, _)
IntersectMerge(a, b) ==
    IF a = <<>> \/ b = <<>> THEN <<>>
    ELSE IF Head(a).docid = Head(b).docid
         THEN <<Head(a)>> \o IntersectMerge(Tail(a), Tail(b))
    ELSE IF Head(a).docid < Head(b).docid THEN IntersectMerge(Tail(a), b)
    ELSE IntersectMerge(a, Tail(b))

RECURSIVE UnionMerge(_, _)
UnionMerge(a, b) ==
    IF a = <<>> THEN b
    ELSE IF b = <<>> THEN a
    ELSE IF Head(a).docid = Head(b).docid
         THEN <<Head(a)>> \o UnionMerge(Tail(a), Tail(b))
    ELSE IF Head(a).docid < Head(b).docid
         THEN <<Head(a)>> \o UnionMerge(Tail(a), b)
    ELSE <<Head(b)>> \o UnionMerge(a, Tail(b))

RECURSIVE NegMerge(_, _)
NegMerge(universe, a) ==
    IF universe = <<>> THEN <<>>
    ELSE IF a # <<>> /\ Head(a).docid = Head(universe)
         THEN NegMerge(Tail(universe), Tail(a))
    ELSE IF a # <<>> /\ Head(a).docid < Head(universe)
         THEN NegMerge(universe, Tail(a))
    ELSE <<Posting(Head(universe), <<>>)>> \o NegMerge(Tail(universe), a)

\* Inside the algebra an absent operand counts as the empty list.
OrEmpty(p) == IF p.none THEN <<>> ELSE p.val

\* search.intersect(a, b): docids in both, positions of a
intersect(a, b) == Some(IntersectMerge(OrEmpty(a), OrEmpty(b)))
\* search.union(a, b): docids in either, positions of a where both have the docid
union(a, b) == Some(UnionMerge(OrEmpty(a), OrEmpty(b)))
\* search.neg(universe, a): the docids of universe not in a, with no positions
neg(universe, a) == Some(NegMerge(universe, OrEmpty(a)))

----------------------------------------------------------------------------
(* expression_eval.py: EvaluationResult *)

\* EvaluationResult.__init__
EvaluationResultInit ==
    [postings_map |-> <<>>, term_map |-> <<>>, query_result |-> None,
     results |-> None, complete |-> FALSE]

\* EvaluationResult.add_postings: the loop over postings[i..]
RECURSIVE AddTerms(_, _, _, _)
AddTerms(term_map, term, postings, i) ==
    IF i > Len(postings) THEN term_map
    ELSE LET d == postings[i].docid
             m == IF DictHas(term_map, d) THEN term_map ELSE DictSet(term_map, d, <<>>)
         IN AddTerms(DictSet(m, d, Append(DictGet(m, d), term)), term, postings, i + 1)

\* A slip of add_postings: the append inside the `if`, so that only the first
\* term of a document is recorded
RECURSIVE AddFirstTerms(_, _, _, _)
AddFirstTerms(term_map, term, postings, i) ==
    IF i > Len(postings) THEN term_map
    ELSE LET d == postings[i].docid
             m == IF DictHas(term_map, d) THEN term_map ELSE DictSet(term_map, d, <<term>>)
         IN AddFirstTerms(m, term, postings, i + 1)

add_postings_first_term_only(er, term, postings) ==
    [er EXCEPT !.postings_map = DictSet(er.postings_map, term, postings),
               !.term_map = AddFirstTerms(er.term_map, term, postings, 1)]

\* EvaluationResult.add_postings
add_postings(er, term, postings) ==
    [er EXCEPT !.postings_map = DictSet(er.postings_map, term, postings),
               !.term_map = AddTerms(er.term_map, term, postings, 1)]

\* EvaluationResult.get_terms
get_terms(er, docid) ==
    IF DictHas(er.term_map, docid) THEN DictGet(er.term_map, docid) ELSE <<>>

\* EvaluationResult.update_results: the dict comprehension over query_result[i..]
RECURSIVE ResultsOf(_, _, _, _)
ResultsOf(er, query_result, i, acc) ==
    IF i > Len(query_result) THEN acc
    ELSE LET posting == query_result[i]
         IN ResultsOf(er, query_result, i + 1,
                DictSet(acc, posting.docid,
                    [positions |-> posting.positions,
                     terms |-> IF DictHas(er.term_map, posting.docid)
                               THEN DictGet(er.term_map, posting.docid)
                               ELSE <<>>]))

\* A slip of update_results: complete is not set
update_results_not_complete(er, query_result) ==
    [er EXCEPT !.query_result = Some(query_result),
               !.results = Some(ResultsOf(er, query_result, 1, <<>>))]

\* EvaluationResult.update_results
update_results(er, query_result) ==
    [er EXCEPT !.query_result = Some(query_result),
               !.results = Some(ResultsOf(er, query_result, 1, <<>>)),
               !.complete = TRUE]

----------------------------------------------------------------------------
(* expression_eval.py: Evaluator *)

\* What a visit leaves: the postings it returns (or None), the EvaluationResult
\* after its add_postings calls, and the exception it raised, if any.
VR(value, er, err) == [value |-> value, er |-> er, err |-> err]

RECURSIVE _visit(_, _), _visit_binop(_, _), _visit_unaryop(_, _)

\* Evaluator._reset
_reset == EvaluationResultInit

\* Evaluator._visit_term
_visit_term(node, er) ==
    LET postings == get_postings(node.term.value)
    IN IF postings.none
       THEN VR(postings, add_postings(er, node.term.value, <<>>), NoErr)
       ELSE VR(postings, add_postings(er, node.term.value, postings.val), NoErr)

\* A slip of _visit_binop: AND without the None cases, an absent operand
\* intersected as the empty list
_visit_binop_absent_as_empty(node, er) ==
    IF node.op.type = "AND" THEN
        LET left == _visit(node.left_child, er)
            right == _visit(node.right_child, left.er)
        IN IF left.err # NoErr THEN left
           ELSE IF right.err # NoErr THEN right
           ELSE VR(intersect(left.value, right.value), right.er, NoErr)
    ELSE IF node.op.type = "OR" THEN
        LET left == _visit(node.left_child, er)
            right == _visit(node.right_child, left.er)
        IN IF left.err # NoErr THEN left
           ELSE IF right.err # NoErr THEN right
           ELSE VR(union(left.value, right.value), right.er, NoErr)
    ELSE VR(None, er, "ExpressionParserException")

\* Evaluator._visit_binop
_visit_binop(node, er) ==
    IF node.op.type = "AND" THEN
        LET left == _visit(node.left_child, er)
            right == _visit(node.right_child, left.er)
            left_postings == left.value
            right_postings == right.value
        IN IF left.err # NoErr THEN left
           ELSE IF right.err # NoErr THEN right
           ELSE IF left_postings.none /\ right_postings.none THEN VR(None, right.er, NoErr)
           ELSE IF left_postings.none THEN VR(right_postings, right.er, NoErr)
           ELSE IF right_postings.none THEN VR(left_postings, right.er, NoErr)
           ELSE VR(intersect(left_postings, right_postings), right.er, NoErr)
    ELSE IF node.op.type = "OR" THEN
        LET left == _visit(node.left_child, er)
            right == _visit(node.right_child, left.er)
        IN IF left.err # NoErr THEN left
           ELSE IF right.err # NoErr THEN right
           ELSE VR(union(left.value, right.value), right.er, NoErr)
    ELSE VR(None, er, "ExpressionParserException")

\* Evaluator._visit_unaryop
_visit_unaryop(node, er) ==
    LET child == _visit(node.child, er)
    IN IF child.err # NoErr THEN child
       ELSE VR(neg(get_universe, child.value), child.er, NoErr)

\* Evaluator._visit
_visit(node, er) ==
    IF node.kind = "BinOp" THEN _visit_binop(node, er)
    ELSE IF node.kind = "Term" THEN _visit_term(node, er)
    ELSE IF node.kind = "UnaryOp" THEN _visit_unaryop(node, er)
    ELSE VR(None, er, "ExpressionParserException")

\* Evaluator.evaluate: the state it leaves, from the parser's state
evaluate(toks, pos) ==
    LET er == _reset
        p == parse(toks, pos)
        v == _visit(p.node, er)
        query_result == IF v.value.none THEN <<>> ELSE v.value.val
    IN IF p.err # NoErr
       THEN [current |-> p.pos, tree |-> NoNode, eval_result |-> er, outcome |-> p.err]
       ELSE IF v.err # NoErr
       THEN [current |-> p.pos, tree |-> p.node, eval_result |-> v.er, outcome |-> v.err]
       ELSE [current |-> p.pos, tree |-> p.node,
             eval_result |-> update_results(v.er, query_result), outcome |-> "returned"]

----------------------------------------------------------------------------
(* The boolean search: one Parser and one Evaluator over one index *)

\* The words a tokenized boolean query is made of
QueryWords == Terms \cup {OR_value, AND_value, NOT_value, LPAREN_value, RPAREN_value}

RECURSIVE SeqsUpTo(_, _)
SeqsUpTo(S, n) ==
    IF n = 0 THEN {<<>>}
    ELSE LET shorter == SeqsUpTo(S, n - 1)
         IN shorter \cup {Append(s, x) : s \in {t \in shorter : Len(t) = n - 1}, x \in S}

\* The positions a term has in a document that contains it
PositionsOf(term) == IF term = "a" THEN <<1>> ELSE IF term = "b" THEN <<2, 3>> ELSE <<4>>
PostingsOver(term, S) == LET ds == SortedSeq(S)
                         IN [i \in 1..Len(ds) |-> Posting(ds[i], PositionsOf(term))]

\* Documents in general position: document d contains "a", "b", "c" according to
\* the three low bits of d - 1, so every combination of the terms has a document.
TermBit(term) == IF term = "a" THEN 1 ELSE IF term = "b" THEN 2 ELSE 4
GenericDocs(term) == {d \in Docs : ((d - 1) \div TermBit(term)) % 2 = 1}

\* What the index may hold for a term: nothing (None: the term is not indexed),
\* an empty postings list, or the postings of the documents that contain it
PostingsChoices(term) == {None, Some(<<>>), Some(PostingsOver(term, GenericDocs(term)))}

\* The indexes of the evaluator's model
BoolIndexes ==
    {f \in [Terms -> UNION {PostingsChoices(t) : t \in Terms}] :
        \A t \in Terms : f[t] \in PostingsChoices(t)}

\* The index with every term indexed, and the index of the specification's
\* examples (a -> {1}, b -> {2}, c -> {2})
GenericIndex == [t \in Terms |-> Some(PostingsOver(t, GenericDocs(t)))]
ExampleIndex == [t \in Terms |-> Some(PostingsOver(t, IF t = "a" THEN {1} ELSE {2}))]
ParseIndexes == {GenericIndex, ExampleIndex}

\* The queries of the specification's examples that are longer than the bounds
ExampleQueries ==
    { <<"a", "OR", "b", "AND", "c">>,
      <<"(", "a", "OR", "b", ")", "AND", "c">>,
      <<"NOT", "(", "a", "OR", "b", ")">>,
      <<"a", "AND", "(", "b", "OR", "c", ")">> }

\* A document length for every document (not read by the boolean search)
UnitLengths == [d \in Docs |-> 1]

\* Parser(expression) and Evaluator(parser, index), just constructed
Constructed(words, idx) ==
    /\ index = idx
    /\ doclength = UnitLengths
    /\ tokens = ParserInit(words)
    /\ current = 1
    /\ tree = NoNode
    /\ eval_result = EvaluationResultInit
    /\ accumulators = <<>>
    /\ query = <<>>
    /\ outcome = "constructed"

Init ==
    \E words \in SeqsUpTo(QueryWords, MaxLen) \cup ExampleQueries, idx \in BoolIndexes :
        Constructed(words, idx)

InitParse ==
    \E words \in SeqsUpTo(QueryWords, MaxParseLen) \cup ExampleQueries, idx \in ParseIndexes :
        Constructed(words, idx)

\* Evaluator.evaluate()
Evaluate ==
    LET e == evaluate(tokens, current)
    IN /\ current' = e.current
       /\ tree' = e.tree
       /\ eval_result' = e.eval_result
       /\ outcome' = e.outcome
       /\ UNCHANGED <<index, doclength, tokens, accumulators, query>>

Next == Evaluate

Spec == Init /\ [][Next]_vars

SpecParse == InitParse /\ [][Next]_vars

----------------------------------------------------------------------------
(* rank_bm25_eval.py: RankedSearchBM25 *)

\* RankedSearchBM25.__init__: the defaults k1 = 1.2 and b = 0.75, in tenths and hundredths
K1_tenths == 12
B_hundredths == 75

\* Weights are floats in the program and fixed-point integers here: log2 is
\* cut to a multiple of 1/IdfScale, a weight to a multiple of
\* 1/(IdfScale * WeightScale).
IdfScale == 4
WeightScale == 10

RECURSIVE Pow(_, _)
Pow(x, n) == IF n = 0 THEN 1 ELSE x * Pow(x, n - 1)

\* math.log2(n / df) for 1 <= df <= n: the largest k with 2^(k/IdfScale) <= n/df
RECURSIVE Log2From(_, _, _)
Log2From(n, df, k) ==
    IF Pow(2, k + 1) * Pow(df, IdfScale) <= Pow(n, IdfScale)
    THEN Log2From(n, df, k + 1)
    ELSE k
log2(n, df) == Log2From(n, df, 0)

\* InvertedIndex.get_doclength and InvertedIndex.avg_doclength (total length / count)
get_doclength(docid) == doclength[docid]
RECURSIVE TotalLength(_)
TotalLength(n) == IF n = 0 THEN 0 ELSE doclength[n] + TotalLength(n - 1)

\* RankedSearchBM25._compute_bm25_term:
\*   idf * ((k1 + 1) * tf) / (k1 * ((1 - b) + b * (dl / davg)) + tf)
\* with davg = total / count, numerator and denominator multiplied by 1000 * total
_compute_bm25_term(idf, tf, dl) ==
    LET total == TotalLength(NDocs)
        num == idf * (K1_tenths + 10) * tf * 100 * total
        den == K1_tenths * ((100 - B_hundredths) * total + B_hundredths * dl * get_doc_count)
                   + 1000 * total * tf
    IN (num * WeightScale) \div den

TermPostings(term, postings) == [term |-> term, postings |-> postings]

\* RankedSearchBM25.evaluate: the loop that builds term_postings_list from query[i..]
RECURSIVE TermPostingsList(_, _)
TermPostingsList(q, i) ==
    IF i > Len(q) THEN <<>>
    ELSE LET term_postings == get_postings(q[i])
         IN IF ~term_postings.none
            THEN <<TermPostings(q[i], term_postings.val)>> \o TermPostingsList(q, i + 1)
            ELSE TermPostingsList(q, i + 1)

\* RankedSearchBM25._search_scored: the inner loop, over postings[i..] of one term
RECURSIVE ScorePostings(_, _, _, _)
ScorePostings(acc, idf, postings, i) ==
    IF i > Len(postings) THEN acc
    ELSE LET p == postings[i]
             tf == Len(p.positions)
             dl == get_doclength(p.docid)
             a == IF DictHas(acc, p.docid) THEN acc ELSE DictSet(acc, p.docid, 0)
             next == DictSet(a, p.docid, DictGet(a, p.docid) + _compute_bm25_term(idf, tf, dl))
         \* (the test makes TLC compute `next` in this iteration, not after the last)
         IN IF next # <<>> THEN ScorePostings(next, idf, postings, i + 1) ELSE next

\* RankedSearchBM25._search_scored: the outer loop, over term_postings_list[i..]
RECURSIVE ScoreTerms(_, _, _)
ScoreTerms(acc, term_postings_list, i) ==
    IF i > Len(term_postings_list) THEN acc
    ELSE LET term_postings == term_postings_list[i]
             doc_count == get_doc_count
             idf == IF term_postings.postings # <<>>
                    THEN log2(doc_count, Len(term_postings.postings))
                    ELSE 0
         IN ScoreTerms(ScorePostings(acc, idf, term_postings.postings, 1),
                       term_postings_list, i + 1)

\* A slip of _search_scored: `=` for `+=`, so that a document keeps only its last
\* partial score
RECURSIVE ScorePostingsLast(_, _, _, _)
ScorePostingsLast(acc, idf, postings, i) ==
    IF i > Len(postings) THEN acc
    ELSE LET p == postings[i]
             next == DictSet(acc, p.docid,
                             _compute_bm25_term(idf, Len(p.positions), get_doclength(p.docid)))
         IN IF next # <<>> THEN ScorePostingsLast(next, idf, postings, i + 1) ELSE next

RECURSIVE ScoreTermsLast(_, _, _)
ScoreTermsLast(acc, term_postings_list, i) ==
    IF i > Len(term_postings_list) THEN acc
    ELSE LET term_postings == term_postings_list[i]
             idf == IF term_postings.postings # <<>>
                    THEN log2(get_doc_count, Len(term_postings.postings))
                    ELSE 0
         IN ScoreTermsLast(ScorePostingsLast(acc, idf, term_postings.postings, 1),
                           term_postings_list, i + 1)

_search_scored_last_term(term_postings_list) == ScoreTermsLast(<<>>, term_postings_list, 1)

\* RankedSearchBM25._search_scored
_search_scored(term_postings_list) == ScoreTerms(<<>>, term_postings_list, 1)

\* sorted(items, key=itemgetter(1), reverse=True): a stable sort, so an item
\* goes after the items before it whose score is not less
RECURSIVE InsertByScore(_, _)
InsertByScore(sorted, item) ==
    IF sorted = <<>> THEN <<item>>
    ELSE IF Head(sorted)[2] >= item[2] THEN <<Head(sorted)>> \o InsertByScore(Tail(sorted), item)
    ELSE <<item>> \o sorted

RECURSIVE SortFrom(_, _, _)
SortFrom(sorted, items, i) ==
    IF i > Len(items) THEN sorted
    ELSE SortFrom(InsertByScore(sorted, items[i]), items, i + 1)

\* A slip of the sort: an ascending sort reversed, which turns the order of equal
\* scores around
RECURSIVE InsertBeforeEqual(_, _)
InsertBeforeEqual(sorted, item) ==
    IF sorted = <<>> THEN <<item>>
    ELSE IF Head(sorted)[2] > item[2]
         THEN <<Head(sorted)>> \o InsertBeforeEqual(Tail(sorted), item)
    ELSE <<item>> \o sorted

RECURSIVE SortReversedFrom(_, _, _)
SortReversedFrom(sorted, items, i) ==
    IF i > Len(items) THEN sorted
    ELSE SortReversedFrom(InsertBeforeEqual(sorted, items[i]), items, i + 1)

sorted_ascending_reversed(items) == SortReversedFrom(<<>>, items, 1)

sorted_reverse(items) == SortFrom(<<>>, items, 1)

\* dict.items(): the (key, value) pairs in insertion order
DictItems(d) == [i \in 1..Len(d) |-> <<d[i].key, d[i].value>>]

\* EvaluationResult.update_ranked_results (module eval_result, not among the
\* sources; section 4.5 of the specification: finalizeRanked): the ranked pairs
\* become the final result, documents hold the score and the recorded terms
RECURSIVE RankedResultsOf(_, _, _, _)
RankedResultsOf(er, ranked, i, acc) ==
    IF i > Len(ranked) THEN acc
    ELSE RankedResultsOf(er, ranked, i + 1,
            DictSet(acc, ranked[i][1],
                [score |-> ranked[i][2], terms |-> get_terms(er, ranked[i][1])]))

update_ranked_results(er, ranked) ==
    [er EXCEPT !.query_result = Some(ranked),
               !.results = Some(RankedResultsOf(er, ranked, 1, <<>>)),
               !.complete = TRUE]

\* RankedSearchBM25._build_result: the loop over term_postings_list[i..]
RECURSIVE AddAllPostings(_, _, _)
AddAllPostings(results, term_postings_list, i) ==
    IF i > Len(term_postings_list) THEN results
    ELSE AddAllPostings(
            add_postings(results, term_postings_list[i].term, term_postings_list[i].postings),
            term_postings_list, i + 1)

\* RankedSearchBM25._build_result
_build_result(term_postings_list, scored_result) ==
    LET results == AddAllPostings(EvaluationResultInit, term_postings_list, 1)
        ranked_score == sorted_reverse(DictItems(scored_result))
    IN update_ranked_results(results, ranked_score)

\* The lengths of the documents: every document holds the positions the index
\* records, and up to MaxPad tokens more
LongestPosition == PositionsOf("c")[1]
DocLengthChoices ==
    {[d \in Docs |-> LongestPosition + ((d * k) % (MaxPad + 1))] : k \in 0..MaxPad}

\* The indexes of the ranked model: those of the evaluator's model, the index of
\* the specification's examples, and one whose term "a" is in every document
EveryDocIndex == [t \in Terms |-> Some(PostingsOver(t, IF t = "a" THEN Docs ELSE GenericDocs(t)))]
RankIndexes == BoolIndexes \cup {ExampleIndex, EveryDocIndex}

\* RankedSearchBM25(query, index), just constructed
InitRank ==
    /\ index \in RankIndexes
    /\ doclength \in DocLengthChoices
    /\ query \in SeqsUpTo(Terms, MaxQuery)
    /\ tokens = ParserInit(<<>>)
    /\ current = 1
    /\ tree = NoNode
    /\ eval_result = EvaluationResultInit
    /\ accumulators = <<>>
    /\ outcome = "constructed"

\* RankedSearchBM25.evaluate()
RankEvaluate ==
    LET term_postings_list == TermPostingsList(query, 1)
        scored_results == _search_scored(term_postings_list)
        ranked_results == _build_result(term_postings_list, scored_results)
    IN /\ accumulators' = scored_results
       /\ eval_result' = ranked_results
       /\ outcome' = "returned"
       /\ UNCHANGED <<index, doclength, tokens, current, tree, query>>

NextRank == RankEvaluate

SpecRank == InitRank /\ [][NextRank]_vars

----------------------------------------------------------------------------
(* Reference notions the claims are stated with *)

\* The words of the query the parser was built on
QueryOf == [i \in 1..(Len(tokens) - 1) |-> tokens[i].value]

\* The docids the index holds for a term
TermDocs(term) == DocIds(OrEmpty(get_postings(term)))

\* Parentheses open before place i of a word list
DepthBefore(ws, i) ==
    Cardinality({j \in 1..(i - 1) : ws[j] = LPAREN_value})
        - Cardinality({j \in 1..(i - 1) : ws[j] = RPAREN_value})
Balanced(ws) ==
    /\ \A i \in 1..Len(ws) : DepthBefore(ws, i + 1) >= 0
    /\ DepthBefore(ws, Len(ws) + 1) = 0
\* The places of word w outside every parenthesis
TopLevel(ws, w) == {i \in 1..Len(ws) : ws[i] = w /\ DepthBefore(ws, i) = 0}
Last(S) == CHOOSE x \in S : \A y \in S : y <= x

Malformed == [ok |-> FALSE, docs |-> {}]
Matches(S) == [ok |-> TRUE, docs |-> S]

\* The meaning of a query by set semantics under NOT > AND > OR, both binary
\* operators grouping to the left, parentheses overriding: a query is split at
\* its last OR outside parentheses, else at its last AND outside parentheses.
RECURSIVE Meaning(_)
Meaning(ws) ==
    LET n == Len(ws)
        Split(i, Combine(_, _)) ==
            LET l == Meaning(SubSeq(ws, 1, i - 1))
                r == Meaning(SubSeq(ws, i + 1, n))
            IN IF l.ok /\ r.ok THEN Matches(Combine(l.docs, r.docs)) ELSE Malformed
        Cup(x, y) == x \cup y
        Cap(x, y) == x \cap y
    IN IF n = 0 \/ ~Balanced(ws) THEN Malformed
       ELSE IF TopLevel(ws, OR_value) # {} THEN Split(Last(TopLevel(ws, OR_value)), Cup)
       ELSE IF TopLevel(ws, AND_value) # {} THEN Split(Last(TopLevel(ws, AND_value)), Cap)
       ELSE IF ws[1] = NOT_value THEN
            LET r == Meaning(SubSeq(ws, 2, n))
            IN IF r.ok THEN Matches(Docs \ r.docs) ELSE Malformed
       ELSE IF ws[1] = LPAREN_value /\ ws[n] = RPAREN_value THEN Meaning(SubSeq(ws, 2, n - 1))
       ELSE IF n = 1 /\ ws[1] \in Terms THEN Matches(TermDocs(ws[1]))
       ELSE Malformed

WellFormed(ws) == Meaning(ws).ok

\* The nodes of a parse tree
RECURSIVE Nodes(_)
Nodes(node) ==
    IF node.kind = "BinOp" THEN {node} \cup Nodes(node.left_child) \cup Nodes(node.right_child)
    ELSE IF node.kind = "UnaryOp" THEN {node} \cup Nodes(node.child)
    ELSE {node}

\* The terms of the Term nodes of a parse tree
TermsOf(node) == {n.term.value : n \in {m \in Nodes(node) : m.kind = "Term"}}

\* What a node evaluates to: postings, or None
ValueOf(node) == _visit(node, EvaluationResultInit).value

NoDuplicates(s) == \A i, j \in 1..Len(s) : s[i] = s[j] => i = j

Aborted == outcome \notin {"constructed", "returned"}

----------------------------------------------------------------------------
(* Claims about the boolean search *)

\* C1: an AND node with exactly one absent (None) child evaluates to the other
\* child's postings unchanged, with two absent children to absent, and only
\* with two real children to their intersection; so "x AND y" with x not
\* indexed returns y's postings as the final result.
C1_AndAbsentIsIdentity ==
    outcome = "returned" =>
        /\ \A n \in Nodes(tree) :
            (n.kind = "BinOp" /\ n.op.type = "AND") =>
                LET l == ValueOf(n.left_child)
                    r == ValueOf(n.right_child)
                    v == ValueOf(n)
                IN /\ (l.none /\ r.none) => v.none
                   /\ (l.none /\ ~r.none) => v = r
                   /\ (~l.none /\ r.none) => v = l
                   /\ (~l.none /\ ~r.none) =>
                        /\ ~v.none
                        /\ DocIds(v.val) = DocIds(l.val) \cap DocIds(r.val)
        /\ (tree.kind = "BinOp" /\ tree.op.type = "AND") =>
            LET l == ValueOf(tree.left_child)
                r == ValueOf(tree.right_child)
            IN /\ (l.none /\ ~r.none) => eval_result.query_result = r
               /\ (~l.none /\ r.none) => eval_result.query_result = l

\* "a AND b" with a not indexed and b matching documents: the result is b's postings
C1_Witness ==
    /\ outcome = "returned"
    /\ QueryOf = <<"a", "AND", "b">>
    /\ index["a"] = None
    /\ index["b"] = GenericIndex["b"]
    /\ eval_result.query_result = GenericIndex["b"]

\* C2: the first evaluate() of a well-formed query returns the documents that
\* set semantics under NOT > AND > OR (parentheses overriding) gives the query.
C2_PrecedenceSetSemantics ==
    [][(outcome = "constructed" /\ WellFormed(QueryOf)) =>
        /\ outcome' = "returned"
        /\ DocIds(eval_result'.query_result.val) = Meaning(QueryOf).docs]_vars

\* "a OR b AND c" with a -> {1}, b -> {2}, c -> {2} has returned {1, 2}
C2_Witness ==
    /\ outcome = "returned"
    /\ index = ExampleIndex
    /\ QueryOf = <<"a", "OR", "b", "AND", "c">>
    /\ DocIds(eval_result.query_result.val) = {1, 2}

\* C3: a call that aborts because the term production met a token that is none
\* of NOT, TERM, LPAREN aborts with the parser's ExpressionParserException.
C3_MissingOperandIsSyntaxError ==
    Aborted => outcome = "ExpressionParserException"

\* C4: no query with unbalanced parentheses is evaluated: a call returns a
\* result only for a token list whose parentheses match.
C4_UnbalancedIsRejected ==
    outcome = "returned" => Balanced(QueryOf)

\* C5: after evaluate() returns, the terms recorded for a document are exactly
\* the visited terms whose postings hold the document, in the final result or not.
C5_TermMapExact ==
    outcome = "returned" =>
        \A d \in Docs :
            /\ Range(get_terms(eval_result, d)) = {t \in TermsOf(tree) : d \in TermDocs(t)}
            /\ DictHas(eval_result.term_map, d) <=> (\E t \in TermsOf(tree) : d \in TermDocs(t))

\* "a AND b": document 4 holds both terms, document 2 holds only "a" and is
\* recorded although it is not in the final result
C5_Witness ==
    /\ outcome = "returned"
    /\ QueryOf = <<"a", "AND", "b">>
    /\ index = GenericIndex
    /\ get_terms(eval_result, 4) = <<"a", "b">>
    /\ get_terms(eval_result, 2) = <<"a">>
    /\ get_terms(eval_result, 3) = <<"b">>
    /\ DocIds(eval_result.query_result.val) = {4, 8}

\* C6: no list of term_map records a term twice.
C6_NoDuplicateTerms ==
    \A d \in Docs : NoDuplicates(get_terms(eval_result, d))

\* C8: complete is false until a call returns; when evaluate() returns the
\* result is complete, query_result is a list and never None, it is empty with
\* empty results when the expression evaluated to None, and the keys of
\* results are the docids of query_result.
C8_ReturnedIsFinalized ==
    /\ ~(outcome = "returned") => ~eval_result.complete
    /\ outcome = "returned" =>
        /\ eval_result.complete
        /\ ~eval_result.query_result.none
        /\ ~eval_result.results.none
        /\ Range(DictKeys(eval_result.results.val)) = DocIds(eval_result.query_result.val)
        /\ Len(eval_result.results.val) = Len(eval_result.query_result.val)
        /\ ValueOf(tree).none =>
            (eval_result.query_result.val = <<>> /\ eval_result.results.val = <<>>)
        /\ ~ValueOf(tree).none => eval_result.query_result = ValueOf(tree)

\* "a AND b" with neither term indexed: the expression is None, the result is empty
C8_Witness ==
    /\ outcome = "returned"
    /\ QueryOf = <<"a", "AND", "b">>
    /\ index["a"] = None /\ index["b"] = None
    /\ ValueOf(tree).none
    /\ eval_result.complete
    /\ eval_result.query_result = Some(<<>>)
    /\ eval_result.results = Some(<<>>)

\* C10: a call of evaluate() after one that returned, for a well-formed query,
\* returns too, with an equal result.
C10_EvaluateRepeatable ==
    [][(outcome = "returned" /\ WellFormed(QueryOf)) =>
        (outcome' = "returned" /\ eval_result' = eval_result)]_vars

----------------------------------------------------------------------------
(* Claims about the ranked search *)

\* The place of a document in a postings list
PlaceIn(postings, d) == CHOOSE i \in 1..Len(postings) : postings[i].docid = d

\* When a document first enters the score accumulator: the first query token
\* whose postings hold it, then its place in those postings
FirstInsertion(d) ==
    LET k == CHOOSE i \in 1..Len(query) :
                /\ d \in TermDocs(query[i])
                /\ \A j \in 1..(i - 1) : d \notin TermDocs(query[j])
    IN k * (NDocs + 1) + PlaceIn(OrEmpty(get_postings(query[k])), d)

\* The documents some indexed query token has postings for
ScoredDocs == UNION {TermDocs(query[i]) : i \in 1..Len(query)}

\* The partial score of a term for a document of its postings
PartialScore(term, d) ==
    LET postings == OrEmpty(get_postings(term))
    IN _compute_bm25_term(log2(get_doc_count, Len(postings)),
                          Len(postings[PlaceIn(postings, d)].positions),
                          get_doclength(d))

\* The sum of the partial scores of the first n query tokens for a document
RECURSIVE ScoreSum(_, _)
ScoreSum(d, n) ==
    IF n = 0 THEN 0
    ELSE ScoreSum(d, n - 1)
            + (IF d \in TermDocs(query[n]) THEN PartialScore(query[n], d) ELSE 0)

\* C7: the ranked pairs are in non-increasing score order, hold each scored
\* document once, and pairs of equal score are in first-insertion order.
C7_RankedOrderStable ==
    outcome = "returned" =>
        LET r == eval_result.query_result.val
        IN /\ {r[i][1] : i \in 1..Len(r)} = ScoredDocs
           /\ Len(r) = Cardinality(ScoredDocs)
           /\ \A i, j \in 1..Len(r) :
                i < j =>
                    /\ r[i][2] >= r[j][2]
                    /\ r[i][2] = r[j][2] => FirstInsertion(r[i][1]) < FirstInsertion(r[j][1])

\* A ranking with a strictly higher score first and with two documents of equal
\* score of which the one inserted first has the larger docid
C7_Witness ==
    /\ outcome = "returned"
    /\ LET r == eval_result.query_result.val
       IN /\ \E i, j \in 1..Len(r) : i < j /\ r[i][2] > r[j][2]
          /\ \E i, j \in 1..Len(r) : i < j /\ r[i][2] = r[j][2] /\ r[i][1] > r[j][1]

\* C9: the scored documents are those of the postings of the indexed query
\* tokens, and the score of each is the sum of the partial scores of the query
\* tokens, one per occurrence, whose postings hold it.
C9_ScoreAdditive ==
    outcome = "returned" =>
        /\ Range(DictKeys(accumulators)) = ScoredDocs
        /\ Len(accumulators) = Cardinality(ScoredDocs)
        /\ \A d \in ScoredDocs : DictGet(accumulators, d) = ScoreSum(d, Len(query))
        /\ \A i \in 1..Len(eval_result.query_result.val) :
            LET pair == eval_result.query_result.val[i]
            IN pair[2] = ScoreSum(pair[1], Len(query))

\* "a b a" with b not indexed: document 2 is scored twice the partial score of "a"
C9_Witness ==
    /\ outcome = "returned"
    /\ query = <<"a", "b", "a">>
    /\ index["b"] = None
    /\ index["a"] = GenericIndex["a"]
    /\ PartialScore("a", 2) > 0
    /\ DictGet(accumulators, 2) = 2 * PartialScore("a", 2)

====
